---- MODULE Spec2Model ----
(***************************************************************************)
(* Model of the albert "Bluetooth" plugin (src/__init__.py): the device    *)
(* records, the bluetoothctl output parser, the plugin's cached device     *)
(* list, the query handler and the connect/disconnect actions.             *)
(*                                                                         *)
(* Python strings are TLA+ strings; a character is a string of length 1.   *)
(* An optional value (str|None) is a sequence of length 0 or 1.            *)
(***************************************************************************)
EXTENDS Integers, Sequences, FiniteSets, TLC

VARIABLES tool, heap, bluetoothDevices, items, launched, last

vars == <<tool, heap, bluetoothDevices, items, launched, last>>

(***************************************************************************)
(* Bounds of the model.                                                    *)
(***************************************************************************)
\* Device records the plugin's refreshes may create in one behaviour.
MaxObjs == 2

(***************************************************************************)
(* Python str operations used by the code.                                 *)
(***************************************************************************)
Ch(s, i) == SubSeq(s, i, i)

UpperChars == "ABCDEFGHIJKLMNOPQRSTUVWXYZ"
LowerChars == "abcdefghijklmnopqrstuvwxyz"

\* The lowercase letter of every uppercase letter.
LowerOf ==
    [c \in {Ch(UpperChars, i) : i \in 1..Len(UpperChars)} |->
        Ch(LowerChars, CHOOSE i \in 1..Len(UpperChars) : Ch(UpperChars, i) = c)]

\* str.lower() on one character.
LowerCh(c) == IF c \in DOMAIN LowerOf THEN LowerOf[c] ELSE c

RECURSIVE ToLower(_)
\* str.lower()
ToLower(s) == IF s = "" THEN "" ELSE LowerCh(Head(s)) \o ToLower(Tail(s))

\* The characters str.strip() removes (those that occur in the payloads).
IsSpace(c) == c \in {" ", "\t", "\n", "\r"}

RECURSIVE LStrip(_)
LStrip(s) == IF s # "" /\ IsSpace(Head(s)) THEN LStrip(Tail(s)) ELSE s

RECURSIVE RStrip(_)
RStrip(s) ==
    IF s # "" /\ IsSpace(Ch(s, Len(s))) THEN RStrip(SubSeq(s, 1, Len(s) - 1)) ELSE s

\* str.strip()
Strip(s) == LStrip(RStrip(s))

\* sub in s
Contains(sub, s) ==
    \E i \in 1..(Len(s) - Len(sub) + 1) : SubSeq(s, i, i + Len(sub) - 1) = sub

RECURSIVE FindFrom(_, _, _)
\* The position of the first occurrence of sep in s at or after i, 0 if none.
FindFrom(s, sep, i) ==
    IF i + Len(sep) - 1 > Len(s) THEN 0
    ELSE IF SubSeq(s, i, i + Len(sep) - 1) = sep THEN i
    ELSE FindFrom(s, sep, i + 1)

\* str.find(sep) + 1
Find(s, sep) == FindFrom(s, sep, 1)

\* s.split(sep, 1): the list of one or two parts.
Split1(s, sep) ==
    LET i == Find(s, sep) IN
    IF i = 0 THEN <<s>>
    ELSE <<SubSeq(s, 1, i - 1), SubSeq(s, i + Len(sep), Len(s))>>

\* s.removeprefix(p)
RemovePrefix(s, p) ==
    IF Len(s) >= Len(p) /\ SubSeq(s, 1, Len(p)) = p
    THEN SubSeq(s, Len(p) + 1, Len(s))
    ELSE s

RECURSIVE SplitLines(_)
\* s.splitlines(): lines end at "\n" (the payloads hold no other line
\* boundary); a final "\n" opens no empty last line.
SplitLines(s) ==
    IF s = "" THEN <<>>
    ELSE LET i == Find(s, "\n") IN
         IF i = 0 THEN <<s>>
         ELSE <<SubSeq(s, 1, i - 1)>> \o SplitLines(SubSeq(s, i + 1, Len(s)))

(***************************************************************************)
(* The external tool (bluetoothctl), a black box with a text contract.     *)
(* tool.status: "ok" (ran, exit code 0), "nonzero" (ran, exit code # 0),   *)
(* "missing" (the executable cannot be started).  tool.devices and        *)
(* tool.info[id] are what "bluetoothctl devices" and "bluetoothctl info    *)
(* <id>" write to stdout; what "bluetoothctl devices Connected" writes is  *)
(* an input of the call that runs it.                                      *)
(***************************************************************************)
DeviceIds == {"A:1", "B:2"}

Listings ==
    { "",
      "Device A:1 Foo\n",
      "Device A:1 Foo\nDevice B:2 fob\n",
      "Device B:2 fob\nDevice A:1 Foo\n",
      "Device A:1 Foo\nDevice\n",
      "A:1 Foo\n" }

ConnectedListings == { "", "Device A:1 Foo\n" }

Details ==
    ("A:1" :> { "Name: Foo\nConnected: yes\nIcon: audio-headset\n",
                "\tName: Foo\n\tConnected: no\n",
                "",
                "Name: Foo\nUUID\nConnected: yes\n" })
    @@ ("B:2" :> { "Name: fob\nCONNECTED: YES\n" })

ToolStatus == {"ok", "nonzero", "missing"}

\* stdout of "bluetoothctl info <id>".
ToolInfo(id) ==
    IF id \in DOMAIN tool.info THEN tool.info[id]
    ELSE "Device " \o id \o " not available\n"

(***************************************************************************)
(* Exceptions: a call returns [exc |-> name or "none", val |-> value].     *)
(***************************************************************************)
Return(v) == [exc |-> "none", val |-> v]
Raise(e) == [exc |-> e, val |-> <<>>]

\* subprocess.run(cmd, stdout=PIPE): raises when the executable cannot be
\* started; the exit code is not looked at (no check=True).
SubprocessRun(stdout) ==
    IF tool.status = "missing" THEN Raise("FileNotFoundError") ELSE Return(stdout)

(***************************************************************************)
(* BluetoothDevice                                                         *)
(***************************************************************************)
None == <<>>
Some(v) == <<v>>

BluetoothDevice(id, name, icon, connected) ==
    [id |-> id, name |-> name, icon |-> icon, connected |-> connected]

RECURSIVE InfoLoop(_, _)
\* The loop of deviceInfo over the lines of the detail payload; dev holds
\* the locals name, connected and icon.
InfoLoop(lines, dev) ==
    IF lines = <<>> THEN Return(dev)
    ELSE LET currentLine == Strip(Head(lines))
             parts == Split1(currentLine, ":")
         IN  IF Len(parts) # 2 THEN Raise("ValueError")
             ELSE LET key == ToLower(Strip(parts[1]))
                      rawValue == parts[2]
                      value == ToLower(Strip(rawValue))
                      next == IF key = "name"
                                THEN [dev EXCEPT !.name = Strip(rawValue)]
                              ELSE IF key = "connected"
                                THEN [dev EXCEPT !.connected = (value = "yes")]
                              ELSE IF key = "icon"
                                THEN [dev EXCEPT !.icon = Some(value)]
                              ELSE dev
                  IN  InfoLoop(Tail(lines), next)

\* BluetoothControl.deviceInfo(id)
deviceInfo(id) ==
    LET proc == SubprocessRun(ToolInfo(id)) IN
    IF proc.exc # "none" THEN Raise(proc.exc)
    ELSE InfoLoop(SplitLines(proc.val),
                  BluetoothDevice(id, "Bluetooth Device " \o id, None, FALSE))

RECURSIVE ListLoop(_, _)
\* The loop of listDevices / listConnectedDevices over the listing's lines.
ListLoop(lines, deviceList) ==
    IF lines = <<>> THEN Return(deviceList)
    ELSE LET parts == Split1(RemovePrefix(Head(lines), "Device "), " ") IN
         IF Len(parts) # 2 THEN Raise("ValueError")
         ELSE LET d == deviceInfo(parts[1]) IN
              IF d.exc # "none" THEN Raise(d.exc)
              ELSE ListLoop(Tail(lines), Append(deviceList, d.val))

\* BluetoothControl.listDevices()
listDevices ==
    LET proc == SubprocessRun(tool.devices) IN
    IF proc.exc # "none" THEN Raise(proc.exc)
    ELSE ListLoop(SplitLines(proc.val), <<>>)

\* BluetoothControl.listConnectedDevices(), stdout being the tool's output
listConnectedDevices(stdout) ==
    LET proc == SubprocessRun(stdout) IN
    IF proc.exc # "none" THEN Raise(proc.exc)
    ELSE ListLoop(SplitLines(proc.val), <<>>)

\* os.path.dirname(__file__)
PluginDir == "/plugin"

\* runDetachedProcess(cmdln, workdir): the process is started and not waited
\* for; no output or exit code comes back.
runDetachedProcess(started, cmdln) == Append(started, cmdln)

\* disconnect that forgets to update the flag.
disconnectKeepsFlag(h) ==
    IF ~heap[h].connected
    THEN /\ launched' = <<>>
         /\ heap' = heap
    ELSE /\ launched' = runDetachedProcess(<<>>, <<"bluetoothctl", "disconnect", heap[h].id>>)
         /\ heap' = heap

\* BluetoothDevice.disconnect(self, workingDir), self = heap[h]
disconnect(h) ==
    IF ~heap[h].connected
    THEN /\ launched' = <<>>
         /\ heap' = heap
    ELSE /\ launched' = runDetachedProcess(<<>>, <<"bluetoothctl", "disconnect", heap[h].id>>)
         /\ heap' = [heap EXCEPT ![h].connected = FALSE]

\* connect without the test of the flag.
connectAlways(h) ==
    /\ launched' = runDetachedProcess(<<>>, <<"bluetoothctl", "connect", heap[h].id>>)
    /\ heap' = [heap EXCEPT ![h].connected = TRUE]

\* BluetoothDevice.connect(self, workingDir), self = heap[h]
connect(h) ==
    IF heap[h].connected
    THEN /\ launched' = <<>>
         /\ heap' = heap
    ELSE /\ launched' = runDetachedProcess(<<>>, <<"bluetoothctl", "connect", heap[h].id>>)
         /\ heap' = [heap EXCEPT ![h].connected = TRUE]

\* BluetoothDevice.getIcon(self)
getIcon(dev) ==
    IF dev.icon = None \/ dev.connected = FALSE
    THEN (IF dev.connected THEN "xdg:bluetooth-active" ELSE "xdg:bluetooth-disabled")
    ELSE "xdg:" \o dev.icon[1]

\* Action(id, text, callable): the callable is the bound method it invokes.
Action(id, text, method, h) ==
    [id |-> id, text |-> text, callable |-> [method |-> method, self |-> h]]

\* item that offers the state the device is already in.
itemOffersCurrentState(h) ==
    LET dev == heap[h] IN
    [ id |-> dev.id,
      text |-> (IF dev.connected THEN "Connect" ELSE "Disconnect") \o " " \o dev.name,
      subtext |-> dev.id,
      iconUrls |-> << getIcon(dev),
                      PluginDir \o (IF dev.connected THEN "/bluetooth-active.svg"
                                                     ELSE "/bluetooth-disabled.svg") >>,
      actions |-> << IF dev.connected
                     THEN Action("connect", "Connect", "connect", h)
                     ELSE Action("disconnect", "Disconnect", "disconnect", h) >> ]

\* BluetoothDevice.item(self), self = heap[h]
item(h) ==
    LET dev == heap[h] IN
    [ id |-> dev.id,
      text |-> (IF ~dev.connected THEN "Connect" ELSE "Disconnect") \o " " \o dev.name,
      subtext |-> dev.id,
      iconUrls |-> << getIcon(dev),
                      PluginDir \o (IF dev.connected THEN "/bluetooth-active.svg"
                                                     ELSE "/bluetooth-disabled.svg") >>,
      actions |-> << IF ~dev.connected
                     THEN Action("connect", "Connect", "connect", h)
                     ELSE Action("disconnect", "Disconnect", "disconnect", h) >> ]

\* BluetoothDevice.rankItem(self): RankItem(item, score), scores 0.0 and 1.0
rankItem(h) == [item |-> item(h), score |-> IF heap[h].connected THEN 0 ELSE 1]

\* The test without lowercasing the name.
MatchesCaseSensitive(s, dev) == s = "" \/ Contains(s, dev.name)

\* The test of the query loop: not s or s in device.name.lower()
Matches(s, dev) == s = "" \/ Contains(s, ToLower(dev.name))

RECURSIVE QueryLoop(_, _, _)
\* The loop of handleGlobalQuery over self.bluetoothDevices.
QueryLoop(devices, s, filtered) ==
    IF devices = <<>> THEN filtered
    ELSE QueryLoop(Tail(devices), s,
                   IF Matches(s, heap[Head(devices)])
                   THEN Append(filtered, rankItem(Head(devices)))
                   ELSE filtered)

\* handleGlobalQuery without the test of the trigger.
handleGlobalQueryAnyTrigger(trigger, string) ==
    QueryLoop(bluetoothDevices, ToLower(Strip(string)), <<>>)

\* Plugin.handleGlobalQuery(query)
handleGlobalQuery(trigger, string) ==
    IF trigger = "" THEN <<>>
    ELSE QueryLoop(bluetoothDevices, ToLower(Strip(string)), <<>>)

(***************************************************************************)
(* The state.  heap: the BluetoothDevice objects the plugin has created,   *)
(* a handle is an index; bluetoothDevices: Plugin.bluetoothDevices, a list *)
(* of handles; items: the rank items of the latest query, held by the      *)
(* launcher; launched: the command lines of the detached processes the    *)
(* latest call started; last: the latest call or event and its outcome.    *)
(***************************************************************************)
Event(op, kind, h, s, trigger, exc, ret) ==
    [op |-> op, kind |-> kind, h |-> h, s |-> s, trigger |-> trigger,
     exc |-> exc, ret |-> ret]

\* Every state of the tool the model considers.
ToolStates ==
    { t \in [status : ToolStatus, devices : Listings,
             info : [DeviceIds -> UNION {Details[i] : i \in DeviceIds}]] :
        \A i \in DeviceIds : t.info[i] \in Details[i] }

\* The plugin right after construction (class attributes of Plugin).
Constructed ==
    /\ heap = <<>>
    /\ bluetoothDevices = <<>>
    /\ items = <<>>
    /\ launched = <<>>
    /\ last = Event("init", "", 0, "", "", "none", <<>>)

Init == tool \in ToolStates /\ Constructed

\* The tool is removed, installed again, or starts or stops failing; what it
\* prints when it runs stays the same.  Nothing reports the change.
ToolChanges ==
    /\ \E status \in ToolStatus \ {tool.status} :
          tool' = [tool EXCEPT !.status = status]
    /\ last' = Event("toolChanges", "", 0, "", "", "none", <<>>)
    /\ launched' = <<>>
    /\ UNCHANGED <<heap, bluetoothDevices, items>>

\* Plugin.updateIndexItems()
UpdateIndexItems ==
    LET devices == listDevices IN
    /\ IF devices.exc # "none"
       THEN /\ bluetoothDevices' = <<>>
            /\ heap' = heap
       ELSE /\ Len(heap) + Len(devices.val) <= MaxObjs
            /\ heap' = heap \o devices.val
            /\ bluetoothDevices' = [i \in 1..Len(devices.val) |-> Len(heap) + i]
    /\ last' = Event("updateIndexItems", "", 0, "", "", devices.exc, <<>>)
    /\ launched' = <<>>
    /\ UNCHANGED <<tool, items>>

\* The query inputs: the trigger ("" is the sentinel of no active query)
\* and the typed string.
Triggers == {"", "bt "}
QueryStrings == {"", "  ", " FO\t", "oo", "zz"}

\* Plugin.handleGlobalQuery(query), called by the launcher, which keeps the
\* returned items.
HandleGlobalQuery ==
    \E trigger \in Triggers, string \in QueryStrings :
        /\ items' = handleGlobalQuery(trigger, string)
        /\ last' = Event("handleGlobalQuery", "", 0, string, trigger, "none", <<>>)
        /\ launched' = <<>>
        /\ UNCHANGED <<tool, heap, bluetoothDevices>>

\* The launcher invokes the callable of the action of the i-th kept item:
\* lambda: self.connect(...) or lambda: self.disconnect(...)
Activate ==
    \E i \in 1..Len(items) :
        LET callable == items[i].item.actions[1].callable IN
        /\ IF callable.method = "connect"
           THEN connect(callable.self)
           ELSE disconnect(callable.self)
        /\ last' = Event("activate", "item", i, "", "", "none", <<>>)
        /\ UNCHANGED <<tool, bluetoothDevices, items>>

\* What a caller may pass as btDevice: a device record (kind "device",
\* handle h), an id string (kind "str", s) or anything else (kind "other").
Targets ==
    [kind : {"device"}, h : 1..Len(heap), s : {""}]
    \cup [kind : {"str"}, h : {0}, s : DeviceIds]
    \cup [kind : {"other"}, h : {0}, s : {""}]

\* disconnectDevice that also clears the flag of the records of a given id.
disconnectDeviceUpdatesCache(btDevice) ==
    IF btDevice.kind = "device"
    THEN /\ disconnect(btDevice.h)
         /\ last' = Event("disconnectDevice", btDevice.kind, btDevice.h, btDevice.s,
                          "", "none", <<>>)
    ELSE IF btDevice.kind = "str"
    THEN /\ launched' = runDetachedProcess(<<>>, <<"bluetoothctl", "disconnect", btDevice.s>>)
         /\ heap' = [h \in DOMAIN heap |->
                        IF heap[h].id = btDevice.s
                        THEN [heap[h] EXCEPT !.connected = FALSE] ELSE heap[h]]
         /\ last' = Event("disconnectDevice", btDevice.kind, btDevice.h, btDevice.s,
                          "", "none", <<>>)
    ELSE /\ launched' = <<>>
         /\ heap' = heap
         /\ last' = Event("disconnectDevice", btDevice.kind, btDevice.h, btDevice.s,
                          "", "TypeError", <<>>)

\* BluetoothControl.disconnectDevice(btDevice)
disconnectDevice(btDevice) ==
    IF btDevice.kind = "device"
    THEN /\ disconnect(btDevice.h)
         /\ last' = Event("disconnectDevice", btDevice.kind, btDevice.h, btDevice.s,
                          "", "none", <<>>)
    ELSE IF btDevice.kind = "str"
    THEN /\ launched' = runDetachedProcess(<<>>, <<"bluetoothctl", "disconnect", btDevice.s>>)
         /\ heap' = heap
         /\ last' = Event("disconnectDevice", btDevice.kind, btDevice.h, btDevice.s,
                          "", "none", <<>>)
    ELSE /\ launched' = <<>>
         /\ heap' = heap
         /\ last' = Event("disconnectDevice", btDevice.kind, btDevice.h, btDevice.s,
                          "", "TypeError", <<>>)

\* connectDevice that takes whatever is not a record for an id string.
connectDeviceAssumesStr(btDevice) ==
    IF btDevice.kind = "device"
    THEN /\ connect(btDevice.h)
         /\ last' = Event("connectDevice", btDevice.kind, btDevice.h, btDevice.s,
                          "", "none", <<>>)
    ELSE /\ launched' = runDetachedProcess(<<>>, <<"bluetoothctl", "connect", btDevice.s>>)
         /\ heap' = heap
         /\ last' = Event("connectDevice", btDevice.kind, btDevice.h, btDevice.s,
                          "", "none", <<>>)

\* BluetoothControl.connectDevice(btDevice)
connectDevice(btDevice) ==
    IF btDevice.kind = "device"
    THEN /\ connect(btDevice.h)
         /\ last' = Event("connectDevice", btDevice.kind, btDevice.h, btDevice.s,
                          "", "none", <<>>)
    ELSE IF btDevice.kind = "str"
    THEN /\ launched' = runDetachedProcess(<<>>, <<"bluetoothctl", "connect", btDevice.s>>)
         /\ heap' = heap
         /\ last' = Event("connectDevice", btDevice.kind, btDevice.h, btDevice.s,
                          "", "none", <<>>)
    ELSE /\ launched' = <<>>
         /\ heap' = heap
         /\ last' = Event("connectDevice", btDevice.kind, btDevice.h, btDevice.s,
                          "", "TypeError", <<>>)

DisconnectDevice ==
    \E btDevice \in Targets :
        /\ disconnectDevice(btDevice)
        /\ UNCHANGED <<tool, bluetoothDevices, items>>

ConnectDevice ==
    \E btDevice \in Targets :
        /\ connectDevice(btDevice)
        /\ UNCHANGED <<tool, bluetoothDevices, items>>

\* A caller invokes a record's own disconnect / connect.
DeviceDisconnect ==
    \E h \in 1..Len(heap) :
        /\ disconnect(h)
        /\ last' = Event("disconnect", "device", h, "", "", "none", <<>>)
        /\ UNCHANGED <<tool, bluetoothDevices, items>>

DeviceConnect ==
    \E h \in 1..Len(heap) :
        /\ connect(h)
        /\ last' = Event("connect", "device", h, "", "", "none", <<>>)
        /\ UNCHANGED <<tool, bluetoothDevices, items>>

\* A caller invokes the controller's listing calls directly; the records
\* returned are the caller's (last.ret), not the plugin's.
ListDevices ==
    LET r == listDevices IN
    /\ last' = Event("listDevices", "", 0, "", "", r.exc, r.val)
    /\ launched' = <<>>
    /\ UNCHANGED <<tool, heap, bluetoothDevices, items>>

ListConnectedDevices ==
    \E stdout \in ConnectedListings :
        LET r == listConnectedDevices(stdout) IN
        /\ last' = Event("listConnectedDevices", "", 0, stdout, "", r.exc, r.val)
        /\ launched' = <<>>
        /\ UNCHANGED <<tool, heap, bluetoothDevices, items>>

DeviceInfo ==
    \E id \in DeviceIds :
        LET r == deviceInfo(id) IN
        /\ last' = Event("deviceInfo", "str", 0, id, "", r.exc,
                         IF r.exc = "none" THEN <<r.val>> ELSE <<>>)
        /\ launched' = <<>>
    /\ UNCHANGED <<tool, heap, bluetoothDevices, items>>

Next ==
    \/ ToolChanges
    \/ UpdateIndexItems
    \/ HandleGlobalQuery
    \/ Activate
    \/ DisconnectDevice
    \/ ConnectDevice
    \/ DeviceDisconnect
    \/ DeviceConnect
    \/ ListDevices
    \/ ListConnectedDevices
    \/ DeviceInfo

Spec == Init /\ [][Next]_vars

(***************************************************************************)
(* Vocabulary of the properties.                                           *)
(***************************************************************************)
Range(f) == {f[i] : i \in DOMAIN f}

\* The step just taken called connect or disconnect of a device record:
\* directly, through the controller, or through a kept item's action.
IsRecordCall(e) ==
    \/ e.op \in {"connect", "disconnect"}
    \/ e.op \in {"connectDevice", "disconnectDevice"} /\ e.kind = "device"
    \/ e.op = "activate"

\* The record and the method of such a call.
CalledRecord(e) ==
    IF e.op = "activate" THEN items[e.h].item.actions[1].callable.self ELSE e.h

CalledMethod(e) ==
    IF e.op = "activate" THEN items[e.h].item.actions[1].callable.method
    ELSE IF e.op \in {"connect", "connectDevice"} THEN "connect"
    ELSE "disconnect"

\* The connected flag a method asks for.
TargetState(method) == method = "connect"

CommandLine(method, id) == <<"bluetoothctl", method, id>>

C2_OneCommandPerFlagChange ==
    [][ /\ IsRecordCall(last') =>
            LET h == CalledRecord(last')
                m == CalledMethod(last')
            IN  /\ heap[h].connected # TargetState(m) =>
                      /\ launched' = <<CommandLine(m, heap[h].id)>>
                      /\ heap' = [heap EXCEPT ![h].connected = TargetState(m)]
                /\ Len(launched') = (IF heap'[h].connected # heap[h].connected THEN 1 ELSE 0)
        /\ last'.op = "toolChanges" => heap' = heap ]_vars

\* A connect that launched "connect <id>" for a tool that cannot even be
\* started: the flag is true all the same.
C2_Witness ==
    /\ last.op = "connect"
    /\ launched = <<CommandLine("connect", heap[last.h].id)>>
    /\ heap[last.h].connected
    /\ tool.status = "missing"

\* The records the items of the latest query were built from.
ItemRecords == [i \in DOMAIN items |-> items[i].item.actions[1].callable.self]

\* The position of record h in the cached list.
Position(h) == CHOOSE i \in DOMAIN bluetoothDevices : bluetoothDevices[i] = h

\* C3: with an active trigger and Q the trimmed, lowercased query string:
\* the results are cached devices in the cache's order, carrying their ids;
\* if Q is empty every cached device is returned, otherwise exactly the
\* cached devices whose lowercased name contains Q.
C3_QueryFiltersByName ==
    (last.op = "handleGlobalQuery" /\ last.trigger # "") =>
        LET Q == ToLower(Strip(last.s)) IN
        /\ \A i \in DOMAIN items :
              /\ ItemRecords[i] \in Range(bluetoothDevices)
              /\ items[i].item.id = heap[ItemRecords[i]].id
        /\ \A i, j \in DOMAIN items :
              i < j => Position(ItemRecords[i]) < Position(ItemRecords[j])
        /\ Q = "" => {items[i].item.id : i \in DOMAIN items}
                        = {heap[h].id : h \in Range(bluetoothDevices)}
        /\ \A h \in Range(bluetoothDevices) :
              h \in Range(ItemRecords)
                 <=> (Q = "" \/ Contains(Q, ToLower(heap[h].name)))

\* A non-empty query that keeps one cached device and drops another.
C3_Witness ==
    /\ last.op = "handleGlobalQuery"
    /\ last.trigger # ""
    /\ ToLower(Strip(last.s)) # ""
    /\ Len(items) = 1
    /\ Len(bluetoothDevices) = 2

\* C4: with the empty trigger the query returns no item, whatever the
\* string and the cache, and changes neither the cache nor a record; with
\* an active trigger and a string that is empty after trimming it returns
\* one item per cached device.
C4_NoTriggerNoResults ==
    [][ last'.op = "handleGlobalQuery" =>
          /\ bluetoothDevices' = bluetoothDevices
          /\ heap' = heap
          /\ last'.trigger = "" => items' = <<>>
          /\ (last'.trigger # "" /\ Strip(last'.s) = "")
                => ItemRecords' = bluetoothDevices ]_vars

\* A query without trigger over a cache that holds devices.
C4_Witness ==
    /\ last.op = "handleGlobalQuery"
    /\ last.trigger = ""
    /\ last.s = ""
    /\ bluetoothDevices # <<>>
    /\ items = <<>>

\* The defaults of a record for id: placeholder name, no icon, not connected.
DefaultRecord(id) == BluetoothDevice(id, "Bluetooth Device " \o id, None, FALSE)

\* A detail line that has the ':' separator.
HasSeparator(line) == Contains(":", line)

\* C5: a detail line without ':' (an empty line too) is skipped: deviceInfo
\* run against a tool that starts returns the record built from the
\* remaining lines, with the defaults for the fields they do not set.
C5_MalformedDetailLineSkipped ==
    (last.op = "deviceInfo" /\ tool.status # "missing") =>
        /\ last.exc = "none"
        /\ last.ret = << InfoLoop(SelectSeq(SplitLines(ToolInfo(last.s)), HasSeparator),
                                  DefaultRecord(last.s)).val >>

\* C6: when the tool cannot be started, listDevices, listConnectedDevices
\* and the refresh give an empty list, deviceInfo gives the record of
\* defaults, and no exception reaches the caller.
C6_ToolFailureIsEmptyResult ==
    tool.status = "missing" =>
        /\ last.op \in {"listDevices", "listConnectedDevices"} =>
              last.exc = "none" /\ last.ret = <<>>
        /\ last.op = "updateIndexItems" =>
              last.exc = "none" /\ bluetoothDevices = <<>>
        /\ last.op = "deviceInfo" =>
              last.exc = "none" /\ last.ret = <<DefaultRecord(last.s)>>

\* C7: connectDevice/disconnectDevice with a target that is neither a string
\* nor a device record raise TypeError, launch nothing and change no record;
\* with a string or a record they raise nothing.
C7_InvalidTargetRaisesTypeError ==
    [][ last'.op \in {"connectDevice", "disconnectDevice"} =>
          IF last'.kind \notin {"device", "str"}
          THEN /\ last'.exc = "TypeError"
               /\ launched' = <<>>
               /\ heap' = heap
               /\ bluetoothDevices' = bluetoothDevices
          ELSE last'.exc = "none" ]_vars

\* A connectDevice with an invalid target while devices are cached.
C7_Witness ==
    /\ last.op = "connectDevice"
    /\ last.kind = "other"
    /\ last.exc = "TypeError"
    /\ bluetoothDevices # <<>>

\* A listing line of the form "Device <id> <rest>".
IsWellFormed(line) ==
    /\ Len(line) > Len("Device ")
    /\ SubSeq(line, 1, Len("Device ")) = "Device "
    /\ Find(SubSeq(line, Len("Device ") + 1, Len(line)), " ") > 1

\* The <id> of a well-formed listing line.
IdOfLine(line) ==
    LET rest == SubSeq(line, Len("Device ") + 1, Len(line)) IN
    SubSeq(rest, 1, Find(rest, " ") - 1)

\* C8: after a refresh that completed, the cache holds one record per
\* well-formed "Device <id> <rest>" line of the tool's listing, in the
\* listing's order, each as the tool describes it now (nothing of the
\* earlier cache is kept).
C8_CacheIsCurrentListing ==
    (last.op = "updateIndexItems" /\ last.exc = "none") =>
        LET wellFormed == SelectSeq(SplitLines(tool.devices), IsWellFormed) IN
        /\ Len(bluetoothDevices) = Len(wellFormed)
        /\ \A i \in DOMAIN bluetoothDevices :
              /\ heap[bluetoothDevices[i]].id = IdOfLine(wellFormed[i])
              /\ heap[bluetoothDevices[i]] = deviceInfo(IdOfLine(wellFormed[i])).val

\* The item of a query is right for the record it was built from: one
\* action, "connect" labelled "Connect <name>" when the flag is false,
\* "disconnect" labelled "Disconnect <name>" when it is true; id and subtext
\* are the record's id.
ItemOffersOtherState(it, dev) ==
    LET method == IF dev.connected THEN "disconnect" ELSE "connect"
        label == IF dev.connected THEN "Disconnect" ELSE "Connect"
    IN  /\ Len(it.actions) = 1
        /\ it.actions[1].id = method
        /\ it.actions[1].callable.method = method
        /\ it.text = label \o " " \o dev.name
        /\ it.id = dev.id
        /\ it.subtext = dev.id

\* C9 as amended: every item a query returns offers the one action that is
\* not its record's state at that time; invoking the action launches the
\* matching command and flips the record's flag if the flag is still what it
\* was when the item was built, and does nothing otherwise.
C9_ItemActionMatchesState ==
    [][ /\ last'.op = "handleGlobalQuery" =>
            \A i \in DOMAIN items' :
                ItemOffersOtherState(items'[i].item, heap[ItemRecords'[i]])
        /\ last'.op = "activate" =>
            LET it == items[last'.h].item
                h == it.actions[1].callable.self
                method == it.actions[1].id
            IN  IF heap[h].connected # TargetState(method)
                THEN /\ launched' = <<CommandLine(method, it.id)>>
                     /\ heap' = [heap EXCEPT ![h].connected = ~heap[h].connected]
                ELSE /\ launched' = <<>>
                     /\ heap' = heap ]_vars

\* The action of a kept item was invoked and launched its command.
C9_Witness ==
    /\ last.op = "activate"
    /\ launched = <<CommandLine(items[last.h].item.actions[1].id, items[last.h].item.id)>>
    /\ heap[ItemRecords[last.h]].connected = TargetState(items[last.h].item.actions[1].id)

\* C9 as claimed: invoking an item's action always launches the matching
\* command for the device id and flips the record's flag.
C9_ActionAlwaysLaunches ==
    [][ last'.op = "activate" =>
            LET it == items[last'.h].item
                h == it.actions[1].callable.self
            IN  /\ launched' = <<CommandLine(it.actions[1].id, it.id)>>
                /\ heap' = [heap EXCEPT ![h].connected = ~heap[h].connected] ]_vars

\* C10: connectDevice/disconnectDevice with an id string launches exactly
\* the one command for that id, whatever the cache holds, and changes
\* neither the cached list nor any record.
C10_RawIdLaunchesAndKeepsCache ==
    [][ (last'.op \in {"connectDevice", "disconnectDevice"} /\ last'.kind = "str") =>
          /\ launched' = <<CommandLine(CalledMethod(last'), last'.s)>>
          /\ heap' = heap
          /\ bluetoothDevices' = bluetoothDevices ]_vars

\* A disconnectDevice(id) that launched its command while the cached record
\* of that id still says connected.
C10_Witness ==
    /\ last.op = "disconnectDevice"
    /\ last.kind = "str"
    /\ launched = <<CommandLine("disconnect", last.s)>>
    /\ \E h \in Range(bluetoothDevices) : heap[h].id = last.s /\ heap[h].connected

====
